---- MODULE Spec2Model ----
(***************************************************************************)
(* Model of AutoBuilder (src/autobuilder.py): one build invocation         *)
(* auto_build(language, project_path, package_manager) as a sequential     *)
(* state machine.  The environment (which executables are present, what a  *)
(* user answers at a prompt, whether an external command exits zero) is    *)
(* nondeterministic.  `log' is a history of everything the invocation did  *)
(* that is visible from outside: executable lookups, prompts, external     *)
(* commands and the start of the setup and compile steps.                  *)
(***************************************************************************)
EXTENDS Integers, Sequences, FiniteSets, TLC

VARIABLES language, project_path, package_manager, present, dirs,
          pc, pm, ip_pm, packages, install_command, idx, scan_i,
          installed, exit_status, log

vars == <<language, project_path, package_manager, present, dirs,
          pc, pm, ip_pm, packages, install_command, idx, scan_i,
          installed, exit_status, log>>

\* ------------------------------------------------------------------------
\* Values
\* ------------------------------------------------------------------------

\* Python's None (the default of package_manager, cwd and dict.get).
None == "<None>"

\* exit_status while the process is still running.
Running == -1

\* Most blanks typed before, and after, the word of an answer.
MaxPad == 1

\* Words a user may type at a prompt (as sequences of characters).
Words == {<<>>, <<"y">>, <<"Y">>, <<"n">>}

Blanks(n) == [k \in 1..n |-> " "]

\* Lines read by input(): a word with up to MaxPad blanks on either side.
Answers ==
    {Blanks(l) \o w \o Blanks(r) : l \in 0..MaxPad, r \in 0..MaxPad, w \in Words}

\* Language identifiers given on the command line.
LanguageInputs == {"python", "cpp", "java", "rust"}

\* Project paths given on the command line.
PathInputs == {"/proj", "/work/app"}

\* Values of --package-manager: absent (None), empty, or a name.
ManagerInputs == {None, "", "apt", "brew", "choco", "vcpkg", "pip"}

\* Executable names the host may or may not have on PATH.
Executables == {"apt", "brew", "choco", "vcpkg"}

\* ------------------------------------------------------------------------
\* Tables built by __init__
\* ------------------------------------------------------------------------

\* Variant of package_manager_keys: the table built with brew first.
package_manager_keys_Reordered == <<"brew", "apt", "choco", "vcpkg">>

\* Keys of self.package_managers in insertion (iteration) order.
package_manager_keys == <<"apt", "brew", "choco", "vcpkg">>

\* self.package_managers: name -> install-command template (as shell words).
package_managers ==
    [apt   |-> <<"sudo", "apt-get", "install", "-y">>,
     brew  |-> <<"brew", "install">>,
     choco |-> <<"choco", "install", "-y">>,
     vcpkg |-> <<"vcpkg", "install">>]

\* Keys of self.languages.
languages == {"python", "cpp", "java"}

\* The result of dict.get for a missing key: None, which `not' treats like
\* the empty string; as a command template it is the empty sequence.
NoTemplate == <<>>

\* Variant of Get: a missing manager gets a template made from its name.
Get_DefaultTemplate(d, key) ==
    IF key \in DOMAIN d THEN d[key] ELSE <<key, "install">>

\* dict.get(key): the value, or None when the key is missing.
Get(d, key) == IF key \in DOMAIN d THEN d[key] ELSE NoTemplate

\* Python truthiness of an optional string: None and "" are false.
Truthy(s) == s # None /\ s # ""

\* shutil.which(name) on a host whose PATH holds `present'.
Which(name) == name \in present

\* ------------------------------------------------------------------------
\* Pure helpers
\* ------------------------------------------------------------------------

IsSpace(c) == c = " "

RECURSIVE LStrip(_)
LStrip(s) == IF s # <<>> /\ IsSpace(Head(s)) THEN LStrip(Tail(s)) ELSE s

RECURSIVE RStrip(_)
RStrip(s) == IF s # <<>> /\ IsSpace(s[Len(s)])
             THEN RStrip(SubSeq(s, 1, Len(s) - 1)) ELSE s

\* str.strip()
Strip(s) == RStrip(LStrip(s))

LowerChar(c) == CASE c = "Y" -> "y"
                  [] c = "N" -> "n"
                  [] OTHER   -> c

\* str.lower()
Lower(s) == [k \in 1..Len(s) |-> LowerChar(s[k])]

\* Variant of IsYes: the answer compared without .lower().
IsYes_NoLower(answer) == Strip(answer) = <<"y">>

\* input(...).strip().lower() == "y"
IsYes(answer) == Lower(Strip(answer)) = <<"y">>

\* get_install_command(manager): the bootstrap command of a manager.
get_install_command(manager) ==
    IF manager = "brew"
    THEN <<"/bin/bash", "-c", "$(curl -fsSL https://raw.githubusercontent.com/Homebrew/install/HEAD/install.sh)">>
    ELSE IF manager = "vcpkg"
    THEN <<"git", "clone", "https://github.com/microsoft/vcpkg.git", "&&", "./vcpkg/bootstrap-vcpkg.sh">>
    ELSE <<>>

\* The package_manager argument the setup_* methods pass to install_packages.
SetupManager(lang) == "brew"

\* Variant of SetupPackages: the lists of two packages in the other order.
SetupPackages_Reordered(lang) ==
    CASE lang = "python" -> <<"pip", "python3">>
      [] lang = "cpp"    -> <<"cmake", "g++">>
      [] lang = "java"   -> <<"openjdk">>

\* The package list each setup_* method passes to install_packages.
SetupPackages(lang) ==
    CASE lang = "python" -> <<"python3", "pip">>
      [] lang = "cpp"    -> <<"g++", "cmake">>
      [] lang = "java"   -> <<"openjdk">>

\* os.path.join(project_path, "build")
BuildDir(path) == <<path, "build">>

\* ------------------------------------------------------------------------
\* History records
\* ------------------------------------------------------------------------

\* kind "which":  shutil.which(name) returned a path (ok) or None.
\* kind "prompt": input() for the prompt `name' read `ans'.
\* kind "cmd":    subprocess.run(cmd, cwd=cwd) exited zero (ok) or not.
\* kind "step":   auto_build reached the step `name' with argument `arg'.
Ev(kind, name, arg, cmd, cwd, ans, ok) ==
    [kind |-> kind, name |-> name, arg |-> arg, cmd |-> cmd, cwd |-> cwd,
     ans |-> ans, ok |-> ok]

WhichEv(name, found) == Ev("which", name, None, <<>>, None, <<>>, found)

PromptEv(name, ans, yes) == Ev("prompt", name, None, <<>>, None, ans, yes)

CmdEv(cmd, cwd, ok) == Ev("cmd", "", None, cmd, cwd, <<>>, ok)

StepEv(name, arg) == Ev("step", name, arg, <<>>, None, <<>>, TRUE)

\* ------------------------------------------------------------------------
\* Initial state: the arguments of auto_build and the state of the host.
\* `dirs' is the set of directories that exist; only compile_cpp reads or
\* writes it, so it is varied for cpp alone.
\* ------------------------------------------------------------------------

Init ==
    /\ language \in LanguageInputs
    /\ project_path \in PathInputs
    /\ package_manager \in ManagerInputs
    /\ present \in SUBSET Executables
    /\ dirs \in IF language = "cpp" THEN {{}, {BuildDir(project_path)}} ELSE {{}}
    /\ pc = "auto_build"
    /\ pm = None
    /\ ip_pm = None
    /\ packages = <<>>
    /\ install_command = NoTemplate
    /\ idx = 0
    /\ scan_i = 0
    /\ installed = {}
    /\ exit_status = Running
    /\ log = <<>>

\* sys.exit(code)
Exit(code) ==
    /\ pc' = "exited"
    /\ exit_status' = code

\* An empty command line is a no-op for the shell and exits 0; any other
\* command may exit zero or non-zero.
Outcomes(command) == IF command = <<>> THEN {TRUE} ELSE BOOLEAN

\* Variant of run_command: a failure undoes what earlier commands installed.
run_command_Rollback(command, cwd, ok, adds, next) ==
    /\ log' = Append(log, CmdEv(command, cwd, ok))
    /\ IF ok
       THEN /\ pc' = next
            /\ installed' = installed \cup adds
            /\ UNCHANGED exit_status
       ELSE /\ Exit(1)
            /\ installed' = {}

\* Variant of run_command: the exit status of the command is not checked.
run_command_NoCheck(command, cwd, ok, adds, next) ==
    /\ log' = Append(log, CmdEv(command, cwd, ok))
    /\ pc' = next
    /\ installed' = IF ok THEN installed \cup adds ELSE installed
    /\ UNCHANGED exit_status

\* run_command(command, cwd): run the command; on a non-zero exit print the
\* error and sys.exit(1), otherwise continue at `next'.  `adds' is what a
\* successful run adds to the host's installed tools.
run_command(command, cwd, ok, adds, next) ==
    /\ log' = Append(log, CmdEv(command, cwd, ok))
    /\ IF ok
       THEN /\ pc' = next
            /\ installed' = installed \cup adds
            /\ UNCHANGED exit_status
       ELSE /\ Exit(1)
            /\ UNCHANGED installed

\* ------------------------------------------------------------------------
\* auto_build: handler lookup
\* ------------------------------------------------------------------------

\* Variant of AutoBuildLookup: an unsupported language exits with status 0.
AutoBuildLookup_ExitZero ==
    /\ pc = "auto_build"
    /\ IF language \notin languages
       THEN /\ Exit(0)
            /\ UNCHANGED log
       ELSE /\ pc' = "detect"
            /\ log' = Append(log, StepEv("lookup", language))
            /\ UNCHANGED exit_status
    /\ UNCHANGED <<language, project_path, package_manager, present, dirs,
                   pm, ip_pm, packages, install_command, idx, scan_i, installed>>

\* Lines 117-119: the language must be a key of self.languages.
AutoBuildLookup ==
    /\ pc = "auto_build"
    /\ IF language \notin languages
       THEN /\ Exit(1)
            /\ UNCHANGED log
       ELSE /\ pc' = "detect"
            /\ log' = Append(log, StepEv("lookup", language))
            /\ UNCHANGED exit_status
    /\ UNCHANGED <<language, project_path, package_manager, present, dirs,
                   pm, ip_pm, packages, install_command, idx, scan_i, installed>>

\* ------------------------------------------------------------------------
\* detect_or_install_package_manager
\* ------------------------------------------------------------------------

\* Variant of DetectExplicit: a chosen manager that is present is not
\* returned; control goes on to the loop over self.package_managers.
DetectExplicit_FallsToScan ==
    /\ pc = "detect"
    /\ Truthy(package_manager)
    /\ IF Which(package_manager)
       THEN /\ pc' = "scan"
            /\ scan_i' = 1
            /\ log' = Append(log, WhichEv(package_manager, TRUE))
       ELSE /\ pc' = "prompt_install"
            /\ log' = Append(log, WhichEv(package_manager, FALSE))
            /\ UNCHANGED scan_i
    /\ UNCHANGED <<language, project_path, package_manager, present, dirs,
                   pm, ip_pm, packages, install_command, idx, installed,
                   exit_status>>

\* chosen_pm is truthy: look it up; return it when present, otherwise go on
\* to prompt_install.
DetectExplicit ==
    /\ pc = "detect"
    /\ Truthy(package_manager)
    /\ IF Which(package_manager)
       THEN /\ pm' = package_manager
            /\ pc' = "setup"
            /\ log' = log \o <<WhichEv(package_manager, TRUE),
                               StepEv("resolved", package_manager)>>
       ELSE /\ pc' = "prompt_install"
            /\ log' = Append(log, WhichEv(package_manager, FALSE))
            /\ UNCHANGED pm
    /\ UNCHANGED <<language, project_path, package_manager, present, dirs,
                   ip_pm, packages, install_command, idx, scan_i, installed,
                   exit_status>>

\* chosen_pm is None or empty: enter the loop over self.package_managers.
DetectAuto ==
    /\ pc = "detect"
    /\ ~Truthy(package_manager)
    /\ pc' = "scan"
    /\ scan_i' = 1
    /\ UNCHANGED <<language, project_path, package_manager, present, dirs,
                   pm, ip_pm, packages, install_command, idx, installed,
                   exit_status, log>>

\* Variant of DetectScan: the first candidate is returned whether or not
\* its lookup found it.
DetectScan_ReturnsUnchecked ==
    /\ pc = "scan"
    /\ IF scan_i > Len(package_manager_keys)
       THEN /\ pc' = "detect_end"
            /\ UNCHANGED <<pm, scan_i, log>>
       ELSE /\ pm' = package_manager_keys[scan_i]
            /\ pc' = "setup"
            /\ log' = log \o <<WhichEv(package_manager_keys[scan_i],
                                        Which(package_manager_keys[scan_i])),
                               StepEv("resolved", package_manager_keys[scan_i])>>
            /\ UNCHANGED scan_i
    /\ UNCHANGED <<language, project_path, package_manager, present, dirs,
                   ip_pm, packages, install_command, idx, installed,
                   exit_status>>

\* One iteration of `for pm in self.package_managers', or the end of the
\* loop, after which control reaches the final sys.exit(1).
DetectScan ==
    /\ pc = "scan"
    /\ IF scan_i > Len(package_manager_keys)
       THEN /\ pc' = "detect_end"
            /\ UNCHANGED <<pm, scan_i, log>>
       ELSE IF Which(package_manager_keys[scan_i])
       THEN /\ pm' = package_manager_keys[scan_i]
            /\ pc' = "setup"
            /\ log' = log \o <<WhichEv(package_manager_keys[scan_i], TRUE),
                               StepEv("resolved", package_manager_keys[scan_i])>>
            /\ UNCHANGED scan_i
       ELSE /\ scan_i' = scan_i + 1
            /\ log' = Append(log, WhichEv(package_manager_keys[scan_i], FALSE))
            /\ UNCHANGED <<pm, pc>>
    /\ UNCHANGED <<language, project_path, package_manager, present, dirs,
                   ip_pm, packages, install_command, idx, installed,
                   exit_status>>

\* Variant of PromptInstall: the bootstrap command runs whatever the answer.
PromptInstall_AnswerIgnored ==
    /\ pc = "prompt_install"
    /\ \E answer \in Answers :
          /\ log' = Append(log, PromptEv("manager", answer, IsYes(answer)))
          /\ pc' = "bootstrap"
          /\ UNCHANGED exit_status
    /\ UNCHANGED <<language, project_path, package_manager, present, dirs,
                   pm, ip_pm, packages, install_command, idx, scan_i, installed>>

\* prompt_install(tool, install_command): read the answer; "y" goes on to
\* run the bootstrap command, anything else is sys.exit(1).
PromptInstall ==
    /\ pc = "prompt_install"
    /\ \E answer \in Answers :
          /\ log' = Append(log, PromptEv("manager", answer, IsYes(answer)))
          /\ IF IsYes(answer)
             THEN /\ pc' = "bootstrap"
                  /\ UNCHANGED exit_status
             ELSE Exit(1)
    /\ UNCHANGED <<language, project_path, package_manager, present, dirs,
                   pm, ip_pm, packages, install_command, idx, scan_i, installed>>

\* The run_command(install_command) inside prompt_install; when it succeeds
\* prompt_install returns to detect_or_install_package_manager, whose next
\* statement is the final sys.exit(1).
Bootstrap ==
    /\ pc = "bootstrap"
    /\ \E ok \in Outcomes(get_install_command(package_manager)) :
          run_command(get_install_command(package_manager), None, ok,
                      {package_manager}, "detect_end")
    /\ UNCHANGED <<language, project_path, package_manager, present, dirs,
                   pm, ip_pm, packages, install_command, idx, scan_i>>

\* Variant of DetectEnd: instead of exiting, the scan is entered again.
DetectEnd_ScansAgain ==
    /\ pc = "detect_end"
    /\ pc' = "scan"
    /\ scan_i' = Len(package_manager_keys) + 1
    /\ UNCHANGED <<language, project_path, package_manager, present, dirs,
                   pm, ip_pm, packages, install_command, idx, installed,
                   exit_status, log>>

\* The last statement of detect_or_install_package_manager: sys.exit(1).
DetectEnd ==
    /\ pc = "detect_end"
    /\ Exit(1)
    /\ UNCHANGED <<language, project_path, package_manager, present, dirs,
                   pm, ip_pm, packages, install_command, idx, scan_i, installed,
                   log>>

\* ------------------------------------------------------------------------
\* setup_python / setup_cpp / setup_java and install_packages
\* ------------------------------------------------------------------------

\* Variant of Setup: auto_build goes straight to compile(project_path).
Setup_Skipped ==
    /\ pc = "setup"
    /\ pc' = "compile"
    /\ UNCHANGED <<language, project_path, package_manager, present, dirs,
                   pm, ip_pm, packages, install_command, idx, scan_i, installed,
                   exit_status, log>>

\* Variant of Setup: the setup_* method looks its manager up again.
Setup_LooksUpAgain ==
    /\ pc = "setup"
    /\ packages' = SetupPackages(language)
    /\ ip_pm' = SetupManager(language)
    /\ pc' = "install_packages"
    /\ log' = log \o <<StepEv("setup", language),
                       WhichEv(SetupManager(language), Which(SetupManager(language)))>>
    /\ UNCHANGED <<language, project_path, package_manager, present, dirs,
                   pm, install_command, idx, scan_i, installed, exit_status>>

\* auto_build calls setup(); each setup_* method starts by calling
\* install_packages(<its packages>, package_manager=<its manager>).
Setup ==
    /\ pc = "setup"
    /\ packages' = SetupPackages(language)
    /\ ip_pm' = SetupManager(language)
    /\ pc' = "install_packages"
    /\ log' = Append(log, StepEv("setup", language))
    /\ UNCHANGED <<language, project_path, package_manager, present, dirs,
                   pm, install_command, idx, scan_i, installed, exit_status>>

\* install_packages: fetch the template; a missing template is sys.exit(1).
InstallPackages ==
    /\ pc = "install_packages"
    /\ install_command' = Get(package_managers, ip_pm)
    /\ IF Get(package_managers, ip_pm) = NoTemplate
       THEN /\ Exit(1)
            /\ UNCHANGED idx
       ELSE /\ pc' = "install_loop"
            /\ idx' = 1
            /\ UNCHANGED exit_status
    /\ UNCHANGED <<language, project_path, package_manager, present, dirs,
                   pm, ip_pm, packages, scan_i, installed, log>>

\* Variant of InstallPackage: a failed install is run again.
InstallPackage_RetryOnFailure ==
    /\ pc = "install_loop"
    /\ idx <= Len(packages)
    /\ \E ok \in BOOLEAN :
          /\ log' = Append(log, CmdEv(install_command \o <<packages[idx]>>, None, ok))
          /\ idx' = IF ok THEN idx + 1 ELSE idx
          /\ installed' = IF ok THEN installed \cup {packages[idx]} ELSE installed
    /\ UNCHANGED <<language, project_path, package_manager, present, dirs,
                   pc, pm, ip_pm, packages, install_command, scan_i, exit_status>>

\* One iteration of `for package in packages': run the install command.
InstallPackage ==
    /\ pc = "install_loop"
    /\ idx <= Len(packages)
    /\ \E ok \in BOOLEAN :
          run_command(install_command \o <<packages[idx]>>, None, ok,
                      {packages[idx]}, "install_loop")
    /\ idx' = idx + 1
    /\ UNCHANGED <<language, project_path, package_manager, present, dirs,
                   pm, ip_pm, packages, install_command, scan_i>>

\* The loop is over: install_packages returns to the setup_* method.
\* setup_python goes on to its prompt; setup_cpp and setup_java return.
InstallReturn ==
    /\ pc = "install_loop"
    /\ idx > Len(packages)
    /\ pc' = IF language = "python" THEN "setup_python_prompt" ELSE "setup_return"
    /\ UNCHANGED <<language, project_path, package_manager, present, dirs,
                   pm, ip_pm, packages, install_command, idx, scan_i, installed,
                   exit_status, log>>

\* setup_python: ask whether to install pyinstaller.
SetupPythonPrompt ==
    /\ pc = "setup_python_prompt"
    /\ \E answer \in Answers :
          /\ log' = Append(log, PromptEv("pyinstaller", answer, IsYes(answer)))
          /\ pc' = IF IsYes(answer) THEN "pip_install" ELSE "setup_return"
    /\ UNCHANGED <<language, project_path, package_manager, present, dirs,
                   pm, ip_pm, packages, install_command, idx, scan_i, installed,
                   exit_status>>

\* setup_python: run_command("pip install pyinstaller").
PipInstall ==
    /\ pc = "pip_install"
    /\ \E ok \in BOOLEAN :
          run_command(<<"pip", "install", "pyinstaller">>, None, ok,
                      {"pyinstaller"}, "setup_return")
    /\ UNCHANGED <<language, project_path, package_manager, present, dirs,
                   pm, ip_pm, packages, install_command, idx, scan_i>>

\* The setup_* method returns to auto_build.
SetupReturn ==
    /\ pc = "setup_return"
    /\ pc' = "compile"
    /\ log' = Append(log, StepEv("setup_done", language))
    /\ UNCHANGED <<language, project_path, package_manager, present, dirs,
                   pm, ip_pm, packages, install_command, idx, scan_i, installed,
                   exit_status>>

\* ------------------------------------------------------------------------
\* compile_python / compile_cpp / compile_java
\* ------------------------------------------------------------------------

\* auto_build calls compile(project_path) of the language's handler.
Compile ==
    /\ pc = "compile"
    /\ pc' = CASE language = "python" -> "compile_python_prompt"
               [] language = "cpp"    -> "makedirs"
               [] language = "java"   -> "javac"
    /\ log' = Append(log, StepEv("compile", language))
    /\ UNCHANGED <<language, project_path, package_manager, present, dirs,
                   pm, ip_pm, packages, install_command, idx, scan_i, installed,
                   exit_status>>

\* Variant of CompilePythonPrompt: the project is packaged only when setup
\* installed pyinstaller.
CompilePythonPrompt_NeedsPyinstaller ==
    /\ pc = "compile_python_prompt"
    /\ \E answer \in Answers :
          /\ log' = Append(log, PromptEv("binary", answer, IsYes(answer)))
          /\ pc' = IF IsYes(answer) /\ "pyinstaller" \in installed
                   THEN "pyinstaller" ELSE "python3"
    /\ UNCHANGED <<language, project_path, package_manager, present, dirs,
                   pm, ip_pm, packages, install_command, idx, scan_i, installed,
                   exit_status>>

\* compile_python: ask whether to package the project as a binary.
CompilePythonPrompt ==
    /\ pc = "compile_python_prompt"
    /\ \E answer \in Answers :
          /\ log' = Append(log, PromptEv("binary", answer, IsYes(answer)))
          /\ pc' = IF IsYes(answer) THEN "pyinstaller" ELSE "python3"
    /\ UNCHANGED <<language, project_path, package_manager, present, dirs,
                   pm, ip_pm, packages, install_command, idx, scan_i, installed,
                   exit_status>>

\* compile_python: run_command(f"pyinstaller --onefile {project_path}")
Pyinstaller ==
    /\ pc = "pyinstaller"
    /\ \E ok \in BOOLEAN :
          run_command(<<"pyinstaller", "--onefile", project_path>>, None, ok,
                      {}, "return")
    /\ UNCHANGED <<language, project_path, package_manager, present, dirs,
                   pm, ip_pm, packages, install_command, idx, scan_i>>

\* compile_python: run_command(f"python3 {project_path}")
Python3 ==
    /\ pc = "python3"
    /\ \E ok \in BOOLEAN :
          run_command(<<"python3", project_path>>, None, ok, {}, "return")
    /\ UNCHANGED <<language, project_path, package_manager, present, dirs,
                   pm, ip_pm, packages, install_command, idx, scan_i>>

\* Variant of Makedirs: os.makedirs without exist_ok, which raises when the
\* directory exists and ends the process with status 1.
Makedirs_NotExistOk ==
    /\ pc = "makedirs"
    /\ log' = Append(log, StepEv("makedirs", BuildDir(project_path)))
    /\ IF BuildDir(project_path) \in dirs
       THEN /\ Exit(1)
            /\ UNCHANGED dirs
       ELSE /\ dirs' = dirs \cup {BuildDir(project_path)}
            /\ pc' = "cmake"
            /\ UNCHANGED exit_status
    /\ UNCHANGED <<language, project_path, package_manager, present,
                   pm, ip_pm, packages, install_command, idx, scan_i, installed>>

\* compile_cpp: os.makedirs(build_dir, exist_ok=True)
Makedirs ==
    /\ pc = "makedirs"
    /\ dirs' = dirs \cup {BuildDir(project_path)}
    /\ pc' = "cmake"
    /\ log' = Append(log, StepEv("makedirs", BuildDir(project_path)))
    /\ UNCHANGED <<language, project_path, package_manager, present,
                   pm, ip_pm, packages, install_command, idx, scan_i, installed,
                   exit_status>>

\* compile_cpp: run_command("cmake ..", cwd=build_dir)
Cmake ==
    /\ pc = "cmake"
    /\ \E ok \in BOOLEAN :
          run_command(<<"cmake", "..">>, BuildDir(project_path), ok, {}, "make")
    /\ UNCHANGED <<language, project_path, package_manager, present, dirs,
                   pm, ip_pm, packages, install_command, idx, scan_i>>

\* compile_cpp: run_command("make", cwd=build_dir)
Make ==
    /\ pc = "make"
    /\ \E ok \in BOOLEAN :
          run_command(<<"make">>, BuildDir(project_path), ok, {}, "return")
    /\ UNCHANGED <<language, project_path, package_manager, present, dirs,
                   pm, ip_pm, packages, install_command, idx, scan_i>>

\* compile_java: run_command(f"javac {project_path}/*.java")
Javac ==
    /\ pc = "javac"
    /\ \E ok \in BOOLEAN :
          run_command(<<"javac", project_path, "/*.java">>, None, ok, {}, "java")
    /\ UNCHANGED <<language, project_path, package_manager, present, dirs,
                   pm, ip_pm, packages, install_command, idx, scan_i>>

\* Variant of Java: the class path is the current directory.
Java_WrongClasspath ==
    /\ pc = "java"
    /\ \E ok \in BOOLEAN :
          run_command(<<"java", "-cp", ".", "Main">>, None, ok, {}, "return")
    /\ UNCHANGED <<language, project_path, package_manager, present, dirs,
                   pm, ip_pm, packages, install_command, idx, scan_i>>

\* compile_java: run_command(f"java -cp {project_path} Main")
Java ==
    /\ pc = "java"
    /\ \E ok \in BOOLEAN :
          run_command(<<"java", "-cp", project_path, "Main">>, None, ok, {},
                      "return")
    /\ UNCHANGED <<language, project_path, package_manager, present, dirs,
                   pm, ip_pm, packages, install_command, idx, scan_i>>

\* compile returned, auto_build returns and the script ends: exit status 0.
AutoBuildReturn ==
    /\ pc = "return"
    /\ Exit(0)
    /\ UNCHANGED <<language, project_path, package_manager, present, dirs,
                   pm, ip_pm, packages, install_command, idx, scan_i, installed,
                   log>>

Next ==
    \/ AutoBuildLookup
    \/ DetectExplicit
    \/ DetectAuto
    \/ DetectScan
    \/ PromptInstall
    \/ Bootstrap
    \/ DetectEnd
    \/ Setup
    \/ InstallPackages
    \/ InstallPackage
    \/ InstallReturn
    \/ SetupPythonPrompt
    \/ PipInstall
    \/ SetupReturn
    \/ Compile
    \/ CompilePythonPrompt
    \/ Pyinstaller
    \/ Python3
    \/ Makedirs
    \/ Cmake
    \/ Make
    \/ Javac
    \/ Java
    \/ AutoBuildReturn

Spec == Init /\ [][Next]_vars

\* The program is sequential and every call it makes is blocking: a command
\* that was started ends and a prompt that was issued is answered, so the
\* next statement is always executed.
FairSpec == Spec /\ WF_vars(Next)

\* ------------------------------------------------------------------------
\* install_packages on its own: called with any package list and any
\* package_manager argument
\* ------------------------------------------------------------------------

\* Longest package list passed to install_packages.
MaxPackages == 2

\* Package names passed to install_packages.
PackageNames == {"python3", "g++", "openjdk"}

\* Package lists passed to install_packages.
PackageLists == UNION {[1..n -> PackageNames] : n \in 0..MaxPackages}

\* Values of the package_manager argument of install_packages.
InstallManagerInputs == {None, "", "apt", "brew", "choco", "vcpkg", "pip"}

\* The state on entry to install_packages(packages, package_manager).
InstallInit ==
    /\ language \in languages
    /\ project_path = "/proj"
    /\ package_manager = None
    /\ present = {}
    /\ dirs = {}
    /\ pc = "install_packages"
    /\ pm = None
    /\ ip_pm \in InstallManagerInputs
    /\ packages \in PackageLists
    /\ install_command = NoTemplate
    /\ idx = 0
    /\ scan_i = 0
    /\ installed = {}
    /\ exit_status = Running
    /\ log = <<>>

InstallNext ==
    \/ InstallPackages
    \/ InstallPackage
    \/ InstallReturn

InstallSpec == InstallInit /\ [][InstallNext]_vars

\* ------------------------------------------------------------------------
\* Views of the history
\* ------------------------------------------------------------------------

Exited == pc = "exited"

IsCmd(e) == e.kind = "cmd"

IsPrompt(e) == e.kind = "prompt"

IsWhich(e) == e.kind = "which"

IsStep(e, name) == e.kind = "step" /\ e.name = name

\* Positions of the log that hold an event satisfying Test.
Positions(Test(_)) == {k \in 1..Len(log) : Test(log[k])}

CmdPositions == Positions(IsCmd)

PromptPositions == Positions(IsPrompt)

WhichPositions == Positions(IsWhich)

IsLookupStep(e) == IsStep(e, "lookup")

IsResolvedStep(e) == IsStep(e, "resolved")

IsSetupStep(e) == IsStep(e, "setup")

IsSetupDoneStep(e) == IsStep(e, "setup_done")

IsCompileStep(e) == IsStep(e, "compile")

TypeOK ==
    /\ pc \in {"auto_build", "detect", "scan", "prompt_install", "bootstrap",
               "detect_end", "setup", "install_packages", "install_loop",
               "setup_python_prompt", "pip_install", "setup_return", "compile",
               "compile_python_prompt", "pyinstaller", "python3", "makedirs",
               "cmake", "make", "javac", "java", "return", "exited"}
    /\ exit_status \in {Running, 0, 1}
    /\ (exit_status # Running) <=> Exited

\* ------------------------------------------------------------------------
\* Vocabulary of the properties
\* ------------------------------------------------------------------------

\* The language identifiers the registry is specified to hold.
RegisteredLanguages == {"python", "cpp", "java"}

\* The order in which candidates are specified to be scanned.
CandidateOrder == <<"apt", "brew", "choco", "vcpkg">>

\* The names looked up so far, in the order of the lookups.
WhichNames ==
    LET w == SelectSeq(log, IsWhich) IN [k \in 1..Len(w) |-> w[k].name]

IsPrefix(a, b) == Len(a) <= Len(b) /\ a = SubSeq(b, 1, Len(a))

\* Positions in CandidateOrder of the candidates present on the host.
PresentCandidates ==
    {i \in 1..Len(CandidateOrder) : CandidateOrder[i] \in present}

\* Position of the first candidate present on the host.
LeastPresentIndex ==
    CHOOSE i \in PresentCandidates : \A j \in PresentCandidates : i <= j

IsManagerPrompt(e) == IsPrompt(e) /\ e.name = "manager"

\* The resolver has been entered and is no longer running.
ResolverFinished == log # <<>> /\ pc \notin {"detect", "scan"}

\* No prompt, command, setup or compile step has happened.
NothingRun ==
    /\ PromptPositions = {}
    /\ CmdPositions = {}
    /\ Positions(IsSetupStep) = {}
    /\ Positions(IsCompileStep) = {}
    /\ installed = {}

\* ------------------------------------------------------------------------
\* C1
\* ------------------------------------------------------------------------

\* C1: for a language that is not python, cpp or java the process ends with
\* exit status 1 and, whatever the project path and the package-manager
\* argument, nothing has happened before: no executable lookup, no prompt,
\* no external command (the history is empty) and no manager is resolved.
C1_UnsupportedLanguageExitsFirst ==
    language \notin RegisteredLanguages =>
        /\ log = <<>>
        /\ pm = None
        /\ installed = {}
        /\ pc \in {"auto_build", "exited"}
        /\ Exited => exit_status = 1

\* An unsupported language given with an explicit, absent manager has exited.
C1_Witness ==
    /\ language \notin RegisteredLanguages
    /\ Truthy(package_manager)
    /\ package_manager \notin present
    /\ project_path = "/work/app"
    /\ Exited
    /\ exit_status = 1

\* ------------------------------------------------------------------------
\* C2
\* ------------------------------------------------------------------------

\* The bootstrap prompt was answered yes and the bootstrap command that
\* followed it exited zero.
BootstrapSucceeded ==
    \E k \in 1..Len(log) :
        /\ IsManagerPrompt(log[k])
        /\ log[k].ok
        /\ k < Len(log)
        /\ IsCmd(log[k + 1])
        /\ log[k + 1].cmd = get_install_command(package_manager)
        /\ log[k + 1].ok

\* The resolver returned manager m and the setup step started after it.
ReturnedThenSetup(m) ==
    \E k \in 1..Len(log) :
        /\ IsResolvedStep(log[k])
        /\ log[k].arg = m
        /\ \E j \in (k + 1)..Len(log) : IsSetupStep(log[j])

\* C2: when an explicit manager is absent, the user consents and the
\* bootstrap command succeeds, the resolver returns the chosen manager and
\* the build proceeds to setup: a finished invocation in which the bootstrap
\* succeeded has the resolver's return of the chosen manager and the start
\* of setup in its history.
C2_BootstrapThenProceeds ==
    (Exited /\ BootstrapSucceeded) =>
        /\ pm = package_manager
        /\ ReturnedThenSetup(package_manager)

\* ------------------------------------------------------------------------
\* C3
\* ------------------------------------------------------------------------

\* C3: when the explicit manager is present, the resolver's whole activity
\* is one lookup of that name followed by its return of that name, whatever
\* else is present: no bootstrap prompt and no command before the return.
C3_ExplicitPresentReturned ==
    (Truthy(package_manager) /\ package_manager \in present /\ ResolverFinished) =>
        /\ pm = package_manager
        /\ Len(log) >= 3
        /\ IsLookupStep(log[1])
        /\ log[2] = WhichEv(package_manager, TRUE)
        /\ log[3] = StepEv("resolved", package_manager)
        /\ WhichNames = <<package_manager>>
        /\ Positions(IsManagerPrompt) = {}
        /\ Positions(IsResolvedStep) = {3}

\* The explicit choice is the last candidate and every candidate is present.
C3_Witness ==
    /\ package_manager = "vcpkg"
    /\ present = {"apt", "brew", "choco", "vcpkg"}
    /\ pc = "setup"
    /\ pm = "vcpkg"

\* ------------------------------------------------------------------------
\* C4
\* ------------------------------------------------------------------------

\* C4: a bootstrap prompt that was not answered yes is the last thing the
\* invocation did: it is asked only for an explicit, absent manager, the
\* process has exit status 1, and no command, setup or compile step was run.
C4_RefusedBootstrapIsFatal ==
    \A k \in Positions(IsManagerPrompt) :
        ~log[k].ok =>
            /\ Truthy(package_manager)
            /\ package_manager \notin present
            /\ k = Len(log)
            /\ Exited
            /\ exit_status = 1
            /\ pm = None
            /\ CmdPositions = {}
            /\ Positions(IsSetupStep) = {}
            /\ Positions(IsCompileStep) = {}
            /\ installed = {}

\* python with vcpkg absent and the prompt answered "n".
C4_Witness ==
    /\ language = "python"
    /\ package_manager = "vcpkg"
    /\ "vcpkg" \notin present
    /\ Exited
    /\ log # <<>>
    /\ IsManagerPrompt(log[Len(log)])
    /\ log[Len(log)].ans = <<"n">>

\* ------------------------------------------------------------------------
\* C5
\* ------------------------------------------------------------------------

\* C5: without an explicit manager the lookups follow the order apt, brew,
\* choco, vcpkg; the resolver returns the first candidate present, looking
\* up no candidate after it; when none is present the process ends with
\* exit status 1 with no prompt, command, setup or compile step.
C5_AutoDetectFirstPresent ==
    ~Truthy(package_manager) =>
        /\ IsPrefix(WhichNames, CandidateOrder)
        /\ Positions(IsManagerPrompt) = {}
        /\ ResolverFinished =>
              IF PresentCandidates # {}
              THEN /\ pm = CandidateOrder[LeastPresentIndex]
                   /\ WhichNames = SubSeq(CandidateOrder, 1, LeastPresentIndex)
                   /\ \E k \in 1..Len(log) :
                         log[k] = StepEv("resolved", CandidateOrder[LeastPresentIndex])
              ELSE /\ pm = None
                   /\ WhichNames = CandidateOrder
                   /\ NothingRun
                   /\ pc \in {"detect_end", "exited"}
                   /\ Exited => exit_status = 1

\* Only brew is present and the resolver returned brew.
C5_Witness ==
    /\ package_manager = None
    /\ present = {"brew"}
    /\ pm = "brew"
    /\ pc = "setup"
    /\ WhichNames = <<"apt", "brew">>

\* No candidate is present and the process has exited.
C5_WitnessNone ==
    /\ package_manager = None
    /\ present = {}
    /\ language \in RegisteredLanguages
    /\ Exited

\* ------------------------------------------------------------------------
\* C6
\* ------------------------------------------------------------------------

IsFailedCmd(e) == IsCmd(e) /\ ~e.ok

IsCmdOf(e, cmd) == IsCmd(e) /\ e.cmd = cmd

\* C6: an external command that exited non-zero is the last thing the
\* invocation did and the process has exit status 1; in particular, once
\* cmake has failed, make is not in the history.
C6_FailedCommandIsLast ==
    /\ \A k \in Positions(IsFailedCmd) :
          /\ k = Len(log)
          /\ Exited
          /\ exit_status = 1
    /\ (\E k \in Positions(IsFailedCmd) : log[k].cmd = <<"cmake", "..">>) =>
          \A j \in 1..Len(log) : ~IsCmdOf(log[j], <<"make">>)

\* A cpp build whose cmake failed after both installs succeeded.
C6_Witness ==
    /\ language = "cpp"
    /\ Exited
    /\ Len(log) > 0
    /\ log[Len(log)] = CmdEv(<<"cmake", "..">>, BuildDir(project_path), FALSE)
    /\ installed = {"g++", "cmake"}

\* ------------------------------------------------------------------------
\* C7
\* ------------------------------------------------------------------------

\* Commands of a setup step: installs through a package manager or pip.
IsInstallCmd(e) == IsCmd(e) /\ \E i \in 1..Len(e.cmd) : e.cmd[i] = "install"

\* Commands and prompt of a compile step.
IsCompileWork(e) ==
    \/ IsCmd(e) /\ e.cmd # <<>>
                /\ Head(e.cmd) \in {"pyinstaller", "python3", "cmake", "make",
                                    "javac", "java"}
    \/ IsPrompt(e) /\ e.name = "binary"

\* C7: the history of every invocation has the steps in the order handler
\* lookup, return of the resolver, start of setup, end of setup, start of
\* compile, each at most once; nothing precedes the handler lookup; setup
\* starts only after the resolver returned the manager held in pm; compile
\* starts only after the same language's setup ended; installs happen only
\* after setup started and compile commands only after compile started; and
\* an invocation that ends with status 0 has gone through all of them.
C7_StepsInOrder ==
    LET L == Positions(IsLookupStep)
        R == Positions(IsResolvedStep)
        S == Positions(IsSetupStep)
        D == Positions(IsSetupDoneStep)
        C == Positions(IsCompileStep)
    IN  /\ \A P \in {L, R, S, D, C} : Cardinality(P) <= 1
        /\ log # <<>> => L = {1} /\ log[1].arg = language
        /\ \A r \in R : \E l \in L : l < r
        /\ \A x \in S : /\ log[x].arg = language
                        /\ pm # None
                        /\ \E r \in R : r < x /\ log[r].arg = pm
        /\ \A d \in D : \E x \in S : x < d /\ log[x].arg = log[d].arg
        /\ \A c \in C : \E d \in D : d < c /\ log[d].arg = log[c].arg
        /\ \A k \in Positions(IsInstallCmd) : \E x \in S : x < k
        /\ \A k \in Positions(IsCompileWork) : \E c \in C : c < k
        /\ (Exited /\ exit_status = 0) => C # {}

\* A java build that went through every step and ended with status 0.
C7_Witness ==
    /\ language = "java"
    /\ Exited
    /\ exit_status = 0
    /\ Positions(IsCompileStep) # {}

\* ------------------------------------------------------------------------
\* C8
\* ------------------------------------------------------------------------

IsRefusedManagerPrompt(e) == IsManagerPrompt(e) /\ ~e.ok

\* The failures the exit status is specified to report.
FailureDetected ==
    \/ language \notin RegisteredLanguages
    \/ ~Truthy(package_manager) /\ PresentCandidates = {}
    \/ Positions(IsRefusedManagerPrompt) # {}
    \/ Positions(IsFailedCmd) # {}

\* C8: a finished invocation has exit status 1 exactly when a failure was
\* detected (unsupported language, no package manager found, bootstrap
\* refused, or a command that exited non-zero) and exit status 0 otherwise.
C8_ExitStatusReflectsFailure ==
    Exited =>
        /\ exit_status \in {0, 1}
        /\ exit_status = 1 <=> FailureDetected

\* ------------------------------------------------------------------------
\* C9
\* ------------------------------------------------------------------------

\* C9: the commands that follow the start of setup, one per package of the
\* language in list order, are the install-command template of the manager
\* the resolver returned, followed by the package name.
C9_InstallsUseResolvedManager ==
    \A x \in Positions(IsSetupStep) :
        \A n \in 1..Len(SetupPackages(language)) :
            x + n <= Len(log) =>
                /\ IsCmd(log[x + n])
                /\ pm \in DOMAIN package_managers
                /\ log[x + n].cmd =
                       package_managers[pm] \o <<SetupPackages(language)[n]>>

\* ------------------------------------------------------------------------
\* C10
\* ------------------------------------------------------------------------

\* The answer is exactly the letter y, in either case.
IsLetterY(a) == a = <<"y">> \/ a = <<"Y">>

\* The answer holds exactly one character that is not a blank, and that
\* character is the letter y, in either case.
IsPaddedLetterY(a) ==
    \E k \in 1..Len(a) :
        /\ a[k] \in {"y", "Y"}
        /\ \A j \in 1..Len(a) : j # k => a[j] = " "

\* The command on the yes branch of each prompt.
YesCmd(name) ==
    CASE name = "manager"     -> get_install_command(package_manager)
      [] name = "pyinstaller" -> <<"pip", "install", "pyinstaller">>
      [] name = "binary"      -> <<"pyinstaller", "--onefile", project_path>>

\* The invocation went down the yes branch of the prompt at position k: the
\* prompt's command is what follows it.
TookYes(k) ==
    IF k < Len(log)
    THEN IsCmdOf(log[k + 1], YesCmd(log[k].name))
    ELSE pc = (CASE log[k].name = "manager"     -> "bootstrap"
                 [] log[k].name = "pyinstaller" -> "pip_install"
                 [] log[k].name = "binary"      -> "pyinstaller")

\* The invocation went down the no branch of the prompt at position k: the
\* required prompt ends the process with status 1; after the optional
\* prompts setup returns without installing pyinstaller, respectively the
\* project is run with python3.
TookNo(k) ==
    CASE log[k].name = "manager" ->
             k = Len(log) /\ Exited /\ exit_status = 1
      [] log[k].name = "pyinstaller" ->
             IF k < Len(log)
             THEN log[k + 1] = StepEv("setup_done", language)
             ELSE pc = "setup_return" /\ exit_status = Running
      [] log[k].name = "binary" ->
             IF k < Len(log)
             THEN IsCmdOf(log[k + 1], <<"python3", project_path>>)
             ELSE pc = "python3" /\ exit_status = Running

PromptBranches(Affirmative(_)) ==
    \A k \in PromptPositions :
        IF Affirmative(log[k].ans) THEN TookYes(k) ELSE TookNo(k)

\* C10 as stated: the answer "y" or "Y" selects the yes branch of every
\* prompt and every other input selects the no branch, which is fatal for
\* the required prompt and not for the optional ones.
C10_OnlyLetterYIsYes == PromptBranches(IsLetterY)

\* C10 as amended: an answer that is "y" or "Y" once leading and trailing
\* blanks are removed selects the yes branch of every prompt; every other
\* input selects the no branch, which ends the process with status 1 for
\* the required prompt and continues on the alternate path for the optional
\* ones.
C10_PaddedLetterYIsYes == PromptBranches(IsPaddedLetterY)

\* A python build that declined pyinstaller with "n", accepted the binary
\* with " Y" and ran pyinstaller.
C10_Witness ==
    /\ \E k \in PromptPositions :
          log[k].name = "pyinstaller" /\ log[k].ans = <<"n">>
    /\ \E k \in PromptPositions :
          /\ log[k].name = "binary"
          /\ log[k].ans = <<" ", "Y">>
          /\ k < Len(log)
          /\ IsCmdOf(log[k + 1], <<"pyinstaller", "--onefile", project_path>>)
    /\ Exited
    /\ exit_status = 0

\* ------------------------------------------------------------------------
\* C11
\* ------------------------------------------------------------------------

\* The commands run so far, in order.
Commands ==
    LET c == SelectSeq(log, IsCmd) IN [k \in 1..Len(c) |-> c[k].cmd]

\* The commands of scenario 1: install the JDK with brew, compile every
\* .java file directly under /proj, run class Main with /proj as classpath.
Scenario1Commands ==
    << <<"brew", "install", "openjdk">>,
       <<"javac", "/proj", "/*.java">>,
       <<"java", "-cp", "/proj", "Main">> >>

Scenario1 ==
    /\ language = "java"
    /\ project_path = "/proj"
    /\ package_manager = None
    /\ present = {"brew"}

\* C11: in build("java", "/proj", None) with only brew present, the
\* commands run are at every moment a prefix of the three commands of the
\* scenario and no prompt is issued; once setup has started the manager is
\* brew; if no command failed, the finished invocation has run exactly the
\* three commands, in order, and has exit status 0.
C11_JavaScenario ==
    Scenario1 =>
        /\ IsPrefix(Commands, Scenario1Commands)
        /\ PromptPositions = {}
        /\ Positions(IsSetupStep) # {} => pm = "brew"
        /\ (Exited /\ Positions(IsFailedCmd) = {}) =>
              /\ Commands = Scenario1Commands
              /\ exit_status = 0

\* Scenario 1 has finished with every command succeeding.
C11_Witness ==
    /\ Scenario1
    /\ Exited
    /\ exit_status = 0
    /\ Len(Commands) = 3
    /\ Positions(IsFailedCmd) = {}

\* ------------------------------------------------------------------------
\* C12
\* ------------------------------------------------------------------------

\* C12: no external command is run twice in an invocation: two different
\* positions of the history never hold the same command line, whether the
\* command succeeded or failed.
C12_NoCommandRunTwice ==
    \A i, j \in CmdPositions : log[i].cmd = log[j].cmd => i = j

\* A python build whose second install failed after the first succeeded.
C12_Witness ==
    /\ language = "python"
    /\ Exited
    /\ Cardinality(CmdPositions) = 2
    /\ Positions(IsFailedCmd) = {Len(log)}

\* ------------------------------------------------------------------------
\* C13
\* ------------------------------------------------------------------------

\* The packages each language's setup is specified to install, in order.
SpecifiedPackages(lang) ==
    CASE lang = "python" -> <<"python3", "pip">>
      [] lang = "cpp"    -> <<"g++", "cmake">>
      [] lang = "java"   -> <<"openjdk">>

\* What a completed setup has installed: the language's packages, and
\* pyinstaller when its installation was run.
InstalledBySetup ==
    {SpecifiedPackages(language)[n] : n \in 1..Len(SpecifiedPackages(language))}
        \cup (IF \E k \in CmdPositions : log[k].cmd = <<"pip", "install", "pyinstaller">>
              THEN {"pyinstaller"} ELSE {})

\* The commands of the compile steps.
IsCompileCmd(e) ==
    /\ IsCmd(e)
    /\ e.cmd # <<>>
    /\ Head(e.cmd) \in {"pyinstaller", "python3", "cmake", "make", "javac", "java"}

\* C13: once setup has completed, the host's installed tools are exactly
\* what setup installed, in every later state and in particular after a
\* compile command has failed; the only commands run after setup are
\* compile commands (no uninstall or other compensating command), and a
\* failed compile command is followed by nothing but exit status 1.
C13_NoRollback ==
    \A d \in Positions(IsSetupDoneStep) :
        /\ installed = InstalledBySetup
        /\ \A k \in (d + 1)..Len(log) :
              IsCmd(log[k]) =>
                  /\ IsCompileCmd(log[k])
                  /\ ~log[k].ok => k = Len(log) /\ Exited /\ exit_status = 1

\* A python build that installed pyinstaller and whose compile command
\* failed.
C13_Witness ==
    /\ language = "python"
    /\ Exited
    /\ exit_status = 1
    /\ Positions(IsSetupDoneStep) # {}
    /\ IsFailedCmd(log[Len(log)])
    /\ IsCompileCmd(log[Len(log)])
    /\ installed = {"python3", "pip", "pyinstaller"}

\* ------------------------------------------------------------------------
\* C14
\* ------------------------------------------------------------------------

\* The build subdirectory of the project path.
BuildSubdir == <<project_path, "build">>

\* The subdirectory exists whenever cmake or make is about to run or has
\* run; both ran with it as working directory; cmake directly follows the
\* creation step and make directly follows a successful cmake.
C14_ProtocolState ==
    /\ pc \in {"cmake", "make"} => BuildSubdir \in dirs
    /\ \A k \in CmdPositions :
          /\ log[k].cmd = <<"cmake", "..">> =>
                /\ log[k].cwd = BuildSubdir
                /\ BuildSubdir \in dirs
                /\ k > 1
                /\ log[k - 1] = StepEv("makedirs", BuildSubdir)
          /\ log[k].cmd = <<"make">> =>
                /\ log[k].cwd = BuildSubdir
                /\ k > 1
                /\ log[k - 1] = CmdEv(<<"cmake", "..">>, BuildSubdir, TRUE)

\* The creation step, whether or not the subdirectory exists already,
\* leaves it existing, removes no directory and goes on to cmake without
\* ending the process.
C14_CreationStep ==
    pc = "makedirs" =>
        /\ pc' = "cmake"
        /\ exit_status' = Running
        /\ dirs' = dirs \cup {BuildSubdir}

\* C14: cpp.compile is a two-step protocol on the build subdirectory: the
\* subdirectory exists before cmake runs (created when absent, reused
\* without error when present), cmake and then make run with it as working
\* directory, and make runs only after cmake succeeded.
C14_CppCompileProtocol == []C14_ProtocolState /\ [][C14_CreationStep]_vars

\* A cpp build in which make ran in the build subdirectory.
C14_Witness ==
    /\ language = "cpp"
    /\ Exited
    /\ exit_status = 0
    /\ log[Len(log)] = CmdEv(<<"make">>, BuildSubdir, TRUE)
    /\ dirs = {BuildSubdir}

\* ------------------------------------------------------------------------
\* C15
\* ------------------------------------------------------------------------

PackageCmd == <<"pyinstaller", "--onefile", project_path>>

InterpreterCmd == <<"python3", project_path>>

IsBinaryPrompt(e) == IsPrompt(e) /\ e.name = "binary"

IsPythonCompileCmd(e) == IsCmd(e) /\ e.cmd \in {PackageCmd, InterpreterCmd}

\* C15: python.compile asks once; what it runs is decided by the answer to
\* that prompt alone, whatever was answered in python.setup: after consent
\* the one command run is pyinstaller on the project, after any other answer
\* it is python3 on the project; never both, and a finished compile step has
\* run exactly one of them.
C15_PythonCompileChoice ==
    /\ Cardinality(Positions(IsBinaryPrompt)) <= 1
    /\ Cardinality(Positions(IsPythonCompileCmd)) <= 1
    /\ \A k \in Positions(IsPythonCompileCmd) :
          /\ k > 1
          /\ IsBinaryPrompt(log[k - 1])
          /\ log[k].cmd = IF IsPaddedLetterY(log[k - 1].ans)
                          THEN PackageCmd ELSE InterpreterCmd
    /\ \A k \in Positions(IsBinaryPrompt) :
          Exited => /\ k + 1 = Len(log)
                    /\ IsPythonCompileCmd(log[k + 1])

\* pyinstaller was declined in setup, the binary was accepted in compile
\* and pyinstaller was run.
C15_Witness ==
    /\ \E k \in PromptPositions :
          log[k].name = "pyinstaller" /\ log[k].ans = <<"n">>
    /\ \E k \in Positions(IsBinaryPrompt) : log[k].ans = <<"y">>
    /\ Exited
    /\ Commands[Len(Commands)] = PackageCmd

\* ------------------------------------------------------------------------
\* C16
\* ------------------------------------------------------------------------

\* The bootstrap commands of the managers.
BootstrapCommands == {get_install_command(m) : m \in ManagerInputs}

\* What the resolver does: executable lookups, the bootstrap prompt and the
\* bootstrap command.
IsResolverWork(e) ==
    \/ IsWhich(e)
    \/ IsManagerPrompt(e)
    \/ IsCmd(e) /\ e.cmd \in BootstrapCommands

\* C16: the resolver returns at most once in an invocation; from then on pm
\* is the manager it returned, and no executable lookup, bootstrap prompt or
\* bootstrap command occurs after the return; before the return no manager
\* is held.
C16_ResolvedOnce ==
    LET R == Positions(IsResolvedStep)
    IN  /\ Cardinality(R) <= 1
        /\ R = {} => pm = None
        /\ \A r \in R :
              /\ pm # None
              /\ log[r].arg = pm
              /\ \A k \in (r + 1)..Len(log) : ~IsResolverWork(log[k])

\* A cpp build that resolved apt by scanning and went through setup and
\* compile.
C16_Witness ==
    /\ language = "cpp"
    /\ package_manager = None
    /\ pm = "apt"
    /\ Exited
    /\ exit_status = 0
    /\ Cardinality(WhichPositions) = 1

\* ------------------------------------------------------------------------
\* C17
\* ------------------------------------------------------------------------

\* C17: provided every command that is started ends and every prompt that
\* is issued is answered, every invocation eventually ends with exit status
\* 0 or 1.
C17_Terminates == <>(Exited /\ exit_status \in {0, 1})

\* A python build that answered two prompts and ended with status 0.
C17_Witness ==
    /\ language = "python"
    /\ Exited
    /\ exit_status = 0
    /\ Cardinality(PromptPositions) = 2

\* ------------------------------------------------------------------------
\* C18
\* ------------------------------------------------------------------------

\* An install command of install_packages (pip's installation of
\* pyinstaller is setup_python's own command).
IsPackageInstall(e) ==
    IsInstallCmd(e) /\ e.cmd # <<"pip", "install", "pyinstaller">>

\* The packages install commands were issued for, in order of issue.
PackagesIssued ==
    LET c == SelectSeq(log, IsPackageInstall)
    IN  [k \in 1..Len(c) |-> c[k].cmd[Len(c[k].cmd)]]

IsSetupPrompt(e) == IsPrompt(e) /\ e.name = "pyinstaller"

\* C18: the install commands issued so far are, one per package and in
\* list order, for a prefix of the language's package list, each being the
\* fetched template followed by one package name; an install that failed is
\* the last event, with exit status 1, so no later package is installed;
\* and setup goes on (to its prompt or its end) only after the whole list.
C18_InstallsInListOrder ==
    /\ language \notin RegisteredLanguages => PackagesIssued = <<>>
    /\ language \in RegisteredLanguages =>
          /\ IsPrefix(PackagesIssued, SpecifiedPackages(language))
          /\ \A k \in Positions(IsPackageInstall) :
                /\ Len(log[k].cmd) = Len(install_command) + 1
                /\ SubSeq(log[k].cmd, 1, Len(install_command)) = install_command
                /\ ~log[k].ok => k = Len(log) /\ Exited /\ exit_status = 1
          /\ (Positions(IsSetupPrompt) # {} \/ Positions(IsSetupDoneStep) # {}) =>
                PackagesIssued = SpecifiedPackages(language)

\* A python build whose install of python3 succeeded and of pip failed.
C18_Witness ==
    /\ language = "python"
    /\ PackagesIssued = <<"python3", "pip">>
    /\ Exited
    /\ exit_status = 1
    /\ installed = {"python3"}

\* A cpp build whose install of g++ failed: cmake was never installed.
C18_WitnessFirstFails ==
    /\ language = "cpp"
    /\ PackagesIssued = <<"g++">>
    /\ Exited
    /\ exit_status = 1

\* ------------------------------------------------------------------------
\* C19
\* ------------------------------------------------------------------------

\* C19: the manager the resolver returns is one its own lookup has just
\* found: the return directly follows a successful lookup of that name, the
\* name is present on the host, and setup starts only after such a return.
C19_ReturnedManagerWasFound ==
    /\ \A r \in Positions(IsResolvedStep) :
          /\ r > 1
          /\ log[r - 1] = WhichEv(log[r].arg, TRUE)
          /\ log[r].arg \in present
          /\ log[r].arg = pm
    /\ \A x \in Positions(IsSetupStep) :
          \E k \in 1..(x - 1) : log[k] = WhichEv(pm, TRUE)

\* Setup has started with an explicit manager that was found.
C19_Witness ==
    /\ Truthy(package_manager)
    /\ pm = package_manager
    /\ Positions(IsSetupStep) # {}
    /\ log[2] = WhichEv(package_manager, TRUE)

\* Setup has started with a manager found by the scan after one miss.
C19_WitnessScan ==
    /\ ~Truthy(package_manager)
    /\ pm = "brew"
    /\ Positions(IsSetupStep) # {}
    /\ log[2] = WhichEv("apt", FALSE)
    /\ log[3] = WhichEv("brew", TRUE)

\* ------------------------------------------------------------------------
\* C20
\* ------------------------------------------------------------------------

\* The managers that have an install-command template.
ManagersWithTemplate == {"apt", "brew", "choco", "vcpkg"}

\* C20: install_packages called with a manager that has no template never
\* gets past its check: for every package list it has issued no command and
\* installed nothing, and it ends the process with exit status 1.
C20_UnknownManagerExits ==
    ip_pm \notin ManagersWithTemplate =>
        /\ pc \in {"install_packages", "exited"}
        /\ CmdPositions = {}
        /\ installed = {}
        /\ Exited => exit_status = 1

\* install_packages(["g++", "python3"], "pip") has ended the process.
C20_Witness ==
    /\ ip_pm = "pip"
    /\ packages = <<"g++", "python3">>
    /\ Exited
    /\ exit_status = 1

====
